---- MODULE Spec2Model ----
(***************************************************************************)
(* Model of alpha/declcfg/declcfg.go: the Meta record (MarshalJSON,        *)
(* UnmarshalJSON), the case-fold key resolver extractUniqueMetaKeys, and    *)
(* the JSON error formatter (resolveUnmarshalErr,                           *)
(* formatUnmarshallErrorString).                                            *)
(*                                                                          *)
(* A string is a sequence of characters, a character is a one-letter        *)
(* TLA+ string ("U+017F" stands for the one character LATIN SMALL LETTER    *)
(* LONG S).  A JSON text given to Meta.UnmarshalJSON is modelled at the     *)
(* token level: its top-level shape, the members of the object in the       *)
(* order they are written, each value as the literal that is written.       *)
(* The documents given to the error formatter are modelled byte by byte.    *)
(***************************************************************************)
EXTENDS Integers, Sequences, FiniteSets, TLC

VARIABLES m, blob, err, out, calls, pc, m2, err2, out2,
          data, offset, errKind, res

vars == <<m, blob, err, out, calls, pc, m2, err2, out2,
          data, offset, errKind, res>>

metaVars == <<m, blob, err, out, calls, pc, m2, err2, out2>>
fmtVars == <<data, offset, errKind, res>>

(***************************************************************************)
(* Strings and keys                                                         *)
(***************************************************************************)

\* a nil []byte / json.RawMessage
Nil == <<>>

kschema == <<"s", "c", "h", "e", "m", "a">>
kSchema == <<"S", "c", "h", "e", "m", "a">>
kLongSchema == <<"U+017F", "c", "h", "e", "m", "a">>
kname == <<"n", "a", "m", "e">>
kNAME == <<"N", "A", "M", "E">>
kpackage == <<"p", "a", "c", "k", "a", "g", "e">>
kfoo == <<"f", "o", "o">>
kFoo == <<"F", "o", "o">>

\* The byte value that orders a character (encoding/json sorts the keys of a
\* map by their bytes); U+017F is the two bytes C5 BF.
Code(c) ==
    CASE c = "A" -> 65 [] c = "E" -> 69 [] c = "F" -> 70 [] c = "M" -> 77
      [] c = "N" -> 78 [] c = "S" -> 83
      [] c = "a" -> 97 [] c = "c" -> 99 [] c = "e" -> 101 [] c = "f" -> 102
      [] c = "g" -> 103 [] c = "h" -> 104 [] c = "k" -> 107 [] c = "m" -> 109
      [] c = "n" -> 110 [] c = "o" -> 111 [] c = "p" -> 112 [] c = "s" -> 115
      [] c = "U+017F" -> 197
      [] OTHER -> 0

RECURSIVE KeyLess(_, _)
KeyLess(a, b) ==
    IF a = <<>> THEN b # <<>>
    ELSE IF b = <<>> THEN FALSE
    ELSE IF Code(Head(a)) # Code(Head(b)) THEN Code(Head(a)) < Code(Head(b))
    ELSE KeyLess(Tail(a), Tail(b))

\* cases.Fold() on one character: Unicode case folding (upper case to lower
\* case, LONG S to s); every other character of the model folds to itself.
FoldChar(c) ==
    CASE c = "A" -> <<"a">> [] c = "E" -> <<"e">> [] c = "F" -> <<"f">>
      [] c = "M" -> <<"m">> [] c = "N" -> <<"n">> [] c = "S" -> <<"s">>
      [] c = "U+017F" -> <<"s">>
      [] OTHER -> <<c>>

\* folder.String(key)
RECURSIVE Fold(_)
Fold(key) ==
    IF key = <<>> THEN <<>> ELSE FoldChar(Head(key)) \o Fold(Tail(key))

(***************************************************************************)
(* JSON values                                                              *)
(***************************************************************************)

\* A number is written as the integer hi * 2^53 + lo, with or without a
\* trailing ".0".  json.Unmarshal into interface{} stores it as a float64:
\* below 2^53 every integer is exact; from 2^53 to 2^54 only the even ones
\* are, and an odd one is a tie that rounds to the even mantissa.
Float64Lo(hi, lo) ==
    IF hi = 0 \/ lo % 2 = 0 THEN lo
    ELSE IF ((lo - 1) \div 2) % 2 = 0 THEN lo - 1 ELSE lo + 1

\* literals, as written in a JSON text
StrLit(s) == [t |-> "string", s |-> s]
NumLit(hi, lo, dot) == [t |-> "number", hi |-> hi, lo |-> lo, dot |-> dot]
NullLit == [t |-> "null"]
TrueLit == [t |-> "true"]
ArrayLit == [t |-> "array"]
ObjectLit == [t |-> "object"]

\* json.Unmarshal of one value into interface{}: string, float64, nil, bool,
\* []interface{} (of `[]`) and map[string]interface{} (of `{}`)
DecodeValue(lit) ==
    CASE lit.t = "string" -> [t |-> "string", s |-> lit.s]
      [] lit.t = "number" ->
            [t |-> "float64", hi |-> lit.hi, lo |-> Float64Lo(lit.hi, lit.lo)]
      [] lit.t = "null" -> [t |-> "nil"]
      [] lit.t = "true" -> [t |-> "bool"]
      [] lit.t = "array" -> [t |-> "slice"]
      [] lit.t = "object" -> [t |-> "map"]

\* Encoder.Encode of one value: a float64 that is an integer below 1e21 is
\* written in full, without fraction or exponent
EncodeValue(v) ==
    CASE v.t = "string" -> StrLit(v.s)
      [] v.t = "float64" -> NumLit(v.hi, v.lo, FALSE)
      [] v.t = "nil" -> NullLit
      [] v.t = "bool" -> TrueLit
      [] v.t = "slice" -> ArrayLit
      [] v.t = "map" -> ObjectLit

(***************************************************************************)
(* JSON texts given to Meta.UnmarshalJSON                                   *)
(***************************************************************************)

Member(k, lit) == [key |-> k, val |-> lit]

\* top: "object" ({...}), "null", "array" ([]: valid JSON that is no object)
\* or "bad" (not JSON); nl: the text ends with a newline
ObjectText(ms, nl) == [top |-> "object", members |-> ms, nl |-> nl]
NullText(nl) == [top |-> "null", members |-> <<>>, nl |-> nl]
ArrayText == [top |-> "array", members |-> <<>>, nl |-> FALSE]
BadText == [top |-> "bad", members |-> <<>>, nl |-> FALSE]

\* errors
NoErr == [kind |-> "nil"]
SyntaxErr == [kind |-> "SyntaxError"]
UnmarshalTypeErr == [kind |-> "UnmarshalTypeError"]
DupErr(dups) == [kind |-> "duplicate keys", dups |-> dups]
NotStringErr(key) == [kind |-> "expected string", key |-> key]

LastIndex(ms, k) ==
    CHOOSE i \in DOMAIN ms :
        /\ ms[i].key = k
        /\ \A j \in DOMAIN ms : ms[j].key = k => j <= i

\* json.Unmarshal(blob, &blobMap) with blobMap an empty map: the error, and
\* the map afterwards (isNil: the map was set to nil by a JSON null).  A key
\* written twice keeps the value written last.
Unmarshal(text) ==
    CASE text.top = "bad" ->
            [err |-> SyntaxErr, isNil |-> FALSE, blobMap |-> <<>>]
      [] text.top = "array" ->
            [err |-> UnmarshalTypeErr, isNil |-> FALSE, blobMap |-> <<>>]
      [] text.top = "null" ->
            [err |-> NoErr, isNil |-> TRUE, blobMap |-> <<>>]
      [] text.top = "object" ->
            [err |-> NoErr, isNil |-> FALSE,
             blobMap |-> [k \in {text.members[i].key : i \in DOMAIN text.members}
                            |-> DecodeValue(text.members[LastIndex(text.members, k)].val)]]

\* the keys of a map in the order Encoder.Encode writes them
RECURSIVE SortedKeys(_)
SortedKeys(ks) ==
    IF ks = {} THEN <<>>
    ELSE LET k == CHOOSE x \in ks : \A y \in ks \ {x} : KeyLess(x, y)
         IN <<k>> \o SortedKeys(ks \ {k})

\* Encode, were only the remainder of the object written: the keys matched
\* to schema, package and name left out
EncodeRest(isNil, blobMap) ==
    IF isNil THEN NullText(TRUE)
    ELSE LET ks == SortedKeys({k \in DOMAIN blobMap :
                        Fold(k) \notin {Fold(kschema), Fold(kpackage), Fold(kname)}})
         IN ObjectText([i \in 1..Len(ks) |-> Member(ks[i], EncodeValue(blobMap[ks[i]]))],
                       TRUE)

\* enc.Encode(blobMap): the keys sorted, every value re-encoded, a newline at
\* the end; a nil map is written as null
Encode(isNil, blobMap) ==
    IF isNil THEN NullText(TRUE)
    ELSE LET ks == SortedKeys(DOMAIN blobMap)
         IN ObjectText([i \in 1..Len(ks) |-> Member(ks[i], EncodeValue(blobMap[ks[i]]))],
                       TRUE)

(***************************************************************************)
(* Meta                                                                     *)
(***************************************************************************)

Meta(s, p, n, b) == [Schema |-> s, Package |-> p, Name |-> n, Blob |-> b]

\* var m Meta
ZeroMeta == Meta("", "", "", Nil)

\* the fields of metaMap with the key each is stored under
MetaFields == {"Schema", "Package", "Name"}
MetaKey(field) ==
    CASE field = "Schema" -> kschema
      [] field = "Package" -> kpackage
      [] field = "Name" -> kname

\* the orders in which `for foldedKey, ptr := range metaMap` can visit metaMap
MetaOrders ==
    {o \in [1..3 -> MetaFields] : \A i, j \in 1..3 : o[i] = o[j] => i = j}

\* keySets: the keys of blobMap grouped by their folded form
KeySets(blobMap) ==
    [fk \in {Fold(k) : k \in DOMAIN blobMap}
        |-> {k \in DOMAIN blobMap : Fold(k) = fk}]

\* the three folded keys of metaMap
MetaFoldedKeys == {Fold(MetaKey(field)) : field \in MetaFields}

\* DupErrs, were only the keys of metaMap checked for duplicates
DupErrsMetaOnly(keySets) ==
    {[foldedKey |-> fk, keys |-> keySets[fk]] :
        fk \in {x \in DOMAIN keySets \cap MetaFoldedKeys : Cardinality(keySets[x]) # 1}}

\* DupErrs, were the first duplicate found returned at once
DupErrsFirst(keySets) ==
    LET dup == {x \in DOMAIN keySets : Cardinality(keySets[x]) # 1}
    IN IF dup = {} THEN {}
       ELSE LET fk == CHOOSE x \in dup : \A y \in dup \ {x} : KeyLess(x, y)
            IN {[foldedKey |-> fk, keys |-> keySets[fk]]}

\* dupErrs: one error for every folded key with more than one key
DupErrs(keySets) ==
    {[foldedKey |-> fk, keys |-> keySets[fk]] :
        fk \in {x \in DOMAIN keySets : Cardinality(keySets[x]) # 1}}

\* MetaLoop, were a value that is no string skipped
RECURSIVE MetaLoopSkip(_, _, _, _, _)
MetaLoopSkip(blobMap, keySets, meta, order, i) ==
    IF i > Len(order) THEN [err |-> NoErr, m |-> meta, blobMap |-> blobMap]
    ELSE LET foldedKey == Fold(MetaKey(order[i]))
         IN IF foldedKey \notin DOMAIN keySets
            THEN MetaLoopSkip(blobMap, keySets, meta, order, i + 1)
            ELSE LET key == CHOOSE k \in keySets[foldedKey] : TRUE
                 IN IF key \notin DOMAIN blobMap \/ blobMap[key].t # "string"
                    THEN MetaLoopSkip(blobMap, keySets, meta, order, i + 1)
                    ELSE MetaLoopSkip(blobMap, keySets,
                                      [meta EXCEPT ![order[i]] = blobMap[key].s],
                                      order, i + 1)

\* the loop over metaMap from position i of the order on: a field whose
\* folded key is not in keySets is skipped, a value that is no string ends
\* the loop with an error, after the fields visited earlier were assigned
RECURSIVE MetaLoop(_, _, _, _, _)
MetaLoop(blobMap, keySets, meta, order, i) ==
    IF i > Len(order) THEN [err |-> NoErr, m |-> meta, blobMap |-> blobMap]
    ELSE LET foldedKey == Fold(MetaKey(order[i]))
         IN IF foldedKey \notin DOMAIN keySets
            THEN MetaLoop(blobMap, keySets, meta, order, i + 1)
            ELSE LET key == CHOOSE k \in keySets[foldedKey] : TRUE
                 IN IF key \notin DOMAIN blobMap
                    THEN MetaLoop(blobMap, keySets, meta, order, i + 1)
                    ELSE IF blobMap[key].t # "string"
                    THEN [err |-> NotStringErr(key), m |-> meta, blobMap |-> blobMap]
                    ELSE MetaLoop(blobMap, keySets,
                                  [meta EXCEPT ![order[i]] = blobMap[key].s],
                                  order, i + 1)

\* extractUniqueMetaKeys(blobMap, m), with metaMap visited in `order`: the
\* error, the Meta and the map afterwards
extractUniqueMetaKeys(blobMap, meta, order) ==
    LET keySets == KeySets(blobMap)
        dupErrs == DupErrs(keySets)
    IN IF dupErrs # {}
       THEN [err |-> DupErr(dupErrs), m |-> meta, blobMap |-> blobMap]
       ELSE MetaLoop(blobMap, keySets, meta, order, 1)

\* (m *Meta) UnmarshalJSON(blob): the error and the Meta afterwards
UnmarshalJSON(meta, text, order) ==
    LET u == Unmarshal(text)
    IN IF u.err # NoErr THEN [err |-> u.err, m |-> meta]
       ELSE LET x == extractUniqueMetaKeys(u.blobMap, meta, order)
            IN IF x.err # NoErr THEN [err |-> x.err, m |-> x.m]
               ELSE [err |-> NoErr,
                     m |-> [x.m EXCEPT !.Blob = Encode(u.isNil, x.blobMap)]]

\* (m Meta) MarshalJSON()
MarshalJSON(meta) == meta.Blob

(***************************************************************************)
(* encoding/json: the scanner and Indent, on the bytes of the model         *)
(***************************************************************************)

IsSpace(c) == c \in {" ", "\n"}
IsDigit(c) == c = "1"

\* newScanner(): step is stateBeginValue, parseState is empty.  A scanner
\* whose step is "Error" is one whose err is set.
NewScanner == [step |-> "BeginValue", parseState |-> <<>>, endTop |-> FALSE]

Scanned(scan, v) == [scan |-> scan, v |-> v]
ScanError(scan) == Scanned([scan EXCEPT !.step = "Error"], "scanError")

stateEndTop(scan, c) ==
    IF ~IsSpace(c) THEN Scanned([scan EXCEPT !.step = "Error"], "scanEnd")
    ELSE Scanned(scan, "scanEnd")

popParseState(scan) ==
    LET n == Len(scan.parseState) - 1
    IN [scan EXCEPT !.parseState = SubSeq(scan.parseState, 1, n),
                    !.step = IF n = 0 THEN "EndTop" ELSE "EndValue",
                    !.endTop = IF n = 0 THEN TRUE ELSE scan.endTop]

stateEndValue(scan, c) ==
    LET n == Len(scan.parseState)
    IN IF n = 0
       THEN stateEndTop([scan EXCEPT !.step = "EndTop", !.endTop = TRUE], c)
       ELSE IF IsSpace(c)
       THEN Scanned([scan EXCEPT !.step = "EndValue"], "scanSkipSpace")
       ELSE CASE scan.parseState[n] = "ObjectKey" ->
                    IF c = ":"
                    THEN Scanned([scan EXCEPT !.parseState[n] = "ObjectValue",
                                              !.step = "BeginValue"], "scanObjectKey")
                    ELSE ScanError(scan)
              [] scan.parseState[n] = "ObjectValue" ->
                    IF c = ","
                    THEN Scanned([scan EXCEPT !.parseState[n] = "ObjectKey",
                                              !.step = "BeginString"], "scanObjectValue")
                    ELSE IF c = "}"
                    THEN Scanned(popParseState(scan), "scanEndObject")
                    ELSE ScanError(scan)
              [] scan.parseState[n] = "ArrayValue" ->
                    IF c = ","
                    THEN Scanned([scan EXCEPT !.step = "BeginValue"], "scanArrayValue")
                    ELSE IF c = "]"
                    THEN Scanned(popParseState(scan), "scanEndArray")
                    ELSE ScanError(scan)

stateInString(scan, c) ==
    IF c = "\"" THEN Scanned([scan EXCEPT !.step = "EndValue"], "scanContinue")
    ELSE IF c = "\n" THEN ScanError(scan)
    ELSE Scanned(scan, "scanContinue")

\* state1 and, for a byte that is no digit, state0
state1(scan, c) ==
    IF IsDigit(c) THEN Scanned([scan EXCEPT !.step = "1"], "scanContinue")
    ELSE stateEndValue(scan, c)

stateBeginString(scan, c) ==
    IF IsSpace(c) THEN Scanned(scan, "scanSkipSpace")
    ELSE IF c = "\"" THEN Scanned([scan EXCEPT !.step = "InString"], "scanBeginLiteral")
    ELSE ScanError(scan)

stateBeginValue(scan, c) ==
    IF IsSpace(c) THEN Scanned(scan, "scanSkipSpace")
    ELSE CASE c = "{" ->
                 Scanned([scan EXCEPT !.step = "BeginStringOrEmpty",
                                      !.parseState = Append(scan.parseState, "ObjectKey")],
                         "scanBeginObject")
           [] c = "[" ->
                 Scanned([scan EXCEPT !.step = "BeginValueOrEmpty",
                                      !.parseState = Append(scan.parseState, "ArrayValue")],
                         "scanBeginArray")
           [] c = "\"" -> Scanned([scan EXCEPT !.step = "InString"], "scanBeginLiteral")
           [] IsDigit(c) -> Scanned([scan EXCEPT !.step = "1"], "scanBeginLiteral")
           [] OTHER -> ScanError(scan)

stateBeginStringOrEmpty(scan, c) ==
    IF IsSpace(c) THEN Scanned(scan, "scanSkipSpace")
    ELSE IF c = "}"
    THEN stateEndValue([scan EXCEPT !.parseState[Len(scan.parseState)] = "ObjectValue"], c)
    ELSE stateBeginString(scan, c)

stateBeginValueOrEmpty(scan, c) ==
    IF IsSpace(c) THEN Scanned(scan, "scanSkipSpace")
    ELSE IF c = "]" THEN stateEndValue(scan, c)
    ELSE stateBeginValue(scan, c)

\* scan.step(scan, c)
ScanStep(scan, c) ==
    CASE scan.step = "BeginValue" -> stateBeginValue(scan, c)
      [] scan.step = "BeginValueOrEmpty" -> stateBeginValueOrEmpty(scan, c)
      [] scan.step = "BeginString" -> stateBeginString(scan, c)
      [] scan.step = "BeginStringOrEmpty" -> stateBeginStringOrEmpty(scan, c)
      [] scan.step = "InString" -> stateInString(scan, c)
      [] scan.step = "1" -> state1(scan, c)
      [] scan.step = "EndValue" -> stateEndValue(scan, c)
      [] scan.step = "EndTop" -> stateEndTop(scan, c)
      [] scan.step = "Error" -> Scanned(scan, "scanError")

\* scan.eof() # scanError
ScanEofOk(scan) ==
    IF scan.step = "Error" THEN FALSE
    ELSE IF scan.endTop THEN TRUE
    ELSE ScanStep(scan, " ").scan.endTop

IndentWidth == 4

\* newline(dst, "", "    ", depth): a newline and depth indents.  Every byte
\* of dst is kept with the position in src it was copied from, 0 for a byte
\* Indent adds.
Newline(depth) == <<"\n">> \o [i \in 1..(IndentWidth * depth) |-> " "]
Added(bytes) == [i \in 1..Len(bytes) |-> [c |-> bytes[i], src |-> 0]]

\* the loop of json.Indent from byte i of src on
RECURSIVE IndentLoop(_, _, _, _, _, _)
IndentLoop(src, i, scan, needIndent, depth, dst) ==
    IF i > Len(src) THEN [scan |-> scan, dst |-> dst]
    ELSE LET c == src[i]
             r == ScanStep(scan, c)
             copied == <<[c |-> c, src |-> i]>>
             indentNow == needIndent /\ r.v \notin {"scanEndObject", "scanEndArray"}
             depth1 == IF indentNow THEN depth + 1 ELSE depth
             need1 == IF indentNow THEN FALSE ELSE needIndent
             dst1 == IF indentNow THEN dst \o Added(Newline(depth1)) ELSE dst
         IN IF r.v = "scanSkipSpace"
            THEN IndentLoop(src, i + 1, r.scan, needIndent, depth, dst)
            ELSE IF r.v = "scanError" THEN [scan |-> r.scan, dst |-> dst]
            ELSE IF r.v = "scanContinue"
            THEN IndentLoop(src, i + 1, r.scan, need1, depth1, dst1 \o copied)
            ELSE CASE c \in {"{", "["} ->
                         IndentLoop(src, i + 1, r.scan, TRUE, depth1, dst1 \o copied)
                   [] c = "," ->
                         IndentLoop(src, i + 1, r.scan, need1, depth1,
                                    dst1 \o copied \o Added(Newline(depth1)))
                   [] c = ":" ->
                         IndentLoop(src, i + 1, r.scan, need1, depth1,
                                    dst1 \o copied \o Added(<<" ">>))
                   [] c \in {"}", "]"} ->
                         IF need1
                         THEN IndentLoop(src, i + 1, r.scan, FALSE, depth1, dst1 \o copied)
                         ELSE IndentLoop(src, i + 1, r.scan, need1, depth1 - 1,
                                         dst1 \o Added(Newline(depth1 - 1)) \o copied)
                   [] OTHER ->
                         IndentLoop(src, i + 1, r.scan, need1, depth1, dst1 \o copied)

\* json.Indent(&pretty, data, "", "    "): whether err == nil, and pretty
Indent(src) ==
    LET r == IndentLoop(src, 1, NewScanner, FALSE, 0, <<>>)
    IN IF ScanEofOk(r.scan) THEN [ok |-> TRUE, dst |-> r.dst]
       ELSE [ok |-> FALSE, dst |-> <<>>]

Bytes(dst) == [i \in 1..Len(dst) |-> dst[i].c]

(***************************************************************************)
(* The JSON error formatter                                                 *)
(***************************************************************************)

\* the result of a call that panics
Panic == [kind |-> "panic: index out of range"]

\* the string that three WriteString calls build after the header
\* "<errmsg> at offset <offset> (indicated by <==)\n "
Marker == <<" ", "<", "=", "=", " ">>
Formatted(errmsg, off, prefix, suffix) ==
    [kind |-> "string", errmsg |-> errmsg, offset |-> off,
     body |-> prefix \o Marker \o suffix, split |-> Len(prefix)]

\* the loop that moves pOffset on until origOffset reaches offset; -1 when
\* pString[pOffset] is read past the end of pString
RECURSIVE PrettyOffset(_, _, _, _)
PrettyOffset(pString, off, pOffset, origOffset) ==
    IF origOffset >= off THEN pOffset
    ELSE IF pOffset >= Len(pString) THEN -1
    ELSE PrettyOffset(pString, off, pOffset + 1,
                      IF pString[pOffset + 1] # "\n" /\ pString[pOffset + 1] # " "
                      THEN origOffset + 1 ELSE origOffset)

formatUnmarshallErrorString(bytes, errmsg, off) ==
    LET pretty == Indent(bytes)
    IN IF pretty.ok
       THEN LET pString == Bytes(pretty.dst)
                pOffset == PrettyOffset(pString, off, 0, 0)
            IN IF pOffset < 0 THEN Panic
               ELSE Formatted(errmsg, off, SubSeq(pString, 1, pOffset),
                              SubSeq(pString, pOffset + 1, Len(pString)))
       ELSE IF off > Len(bytes) THEN Panic
       ELSE Formatted(errmsg, off, SubSeq(bytes, 1, off),
                      SubSeq(bytes, off + 1, Len(bytes)))

\* resolveUnmarshalErr(data, err), for an error of the given kind and Offset
resolveUnmarshalErr(bytes, kind, off) ==
    IF kind = "UnmarshalTypeError"
    THEN formatUnmarshallErrorString(bytes, "json: cannot unmarshal", off)
    ELSE IF kind = "SyntaxError"
    THEN formatUnmarshallErrorString(bytes, "invalid character", off)
    ELSE [kind |-> "string", errmsg |-> "error", offset |-> 0, body |-> <<>>,
          split |-> 0]

(***************************************************************************)
(* The JSON texts of the model                                              *)
(***************************************************************************)

Reverse(seq) == [i \in 1..Len(seq) |-> seq[Len(seq) + 1 - i]]

\* the object f (a function from keys to literals) written with its keys in
\* ascending or in descending order
Written(f, ascending) ==
    LET ks == IF ascending THEN SortedKeys(DOMAIN f) ELSE Reverse(SortedKeys(DOMAIN f))
    IN ObjectText([i \in 1..Len(ks) |-> Member(ks[i], f[ks[i]])], FALSE)

\* the most keys of an object text
MaxKeys == 4

ObjectTexts(keys, lits, dirs) ==
    {Written(f, asc) :
        f \in UNION {[S -> lits] : S \in {T \in SUBSET keys : Cardinality(T) <= MaxKeys}},
        asc \in dirs}

BigNum == NumLit(1, 1, FALSE)

\* texts that are no object, that write a key twice, that hold the other
\* kinds of value, or whose keys need Unicode folding
SampleTexts ==
    {NullText(FALSE), ArrayText, BadText,
     ObjectText(<<Member(kschema, StrLit("a")), Member(kschema, StrLit("b"))>>, FALSE),
     ObjectText(<<Member(kname, NullLit), Member(kschema, StrLit("a"))>>, FALSE),
     ObjectText(<<Member(kschema, StrLit("b")), Member(kpackage, TrueLit)>>, FALSE),
     ObjectText(<<Member(kschema, ArrayLit)>>, FALSE),
     ObjectText(<<Member(kname, ObjectLit)>>, FALSE),
     ObjectText(<<Member(kfoo, NumLit(0, 1, TRUE)), Member(kname, StrLit("a"))>>, FALSE),
     ObjectText(<<Member(kfoo, NumLit(1, 3, FALSE))>>, FALSE),
     ObjectText(<<Member(kLongSchema, StrLit("a"))>>, FALSE),
     ObjectText(<<Member(kLongSchema, StrLit("a")), Member(kschema, StrLit("b"))>>, FALSE),
     ObjectText(<<Member(kname, StrLit("a")), Member(kNAME, StrLit("b")),
                  Member(kfoo, NullLit)>>, FALSE)}

\* the texts given to a Meta that is decoded into several times
ReuseTexts ==
    ObjectTexts({kschema, kname, kpackage}, {StrLit("a"), StrLit("b"), BigNum}, {FALSE})
        \cup {NullText(FALSE), ArrayText, BadText}

\* the texts given to a fresh Meta
FreshTexts ==
    ObjectTexts({kschema, kSchema, kname, kpackage, kfoo, kFoo},
                {StrLit("a"), StrLit("b"), BigNum}, BOOLEAN)
        \cup SampleTexts

\* how many times one Meta is decoded into
MaxCalls == 2

(***************************************************************************)
(* Spec: one Meta value, decoded into again and again                       *)
(***************************************************************************)

Init ==
    /\ m = ZeroMeta
    /\ blob = Nil
    /\ err = NoErr
    /\ out = Nil
    /\ calls = 0
    /\ pc = "meta"
    /\ m2 = ZeroMeta
    /\ err2 = NoErr
    /\ out2 = Nil
    /\ data = <<>>
    /\ offset = 0
    /\ errKind = "none"
    /\ res = Nil

\* err := m.UnmarshalJSON(blob)
Decode ==
    /\ calls < MaxCalls
    /\ \E text \in ReuseTexts, order \in MetaOrders :
          LET r == UnmarshalJSON(m, text, order)
          IN /\ blob' = text
             /\ m' = r.m
             /\ err' = r.err
    /\ calls' = calls + 1
    /\ UNCHANGED <<out, pc, m2, err2, out2>>
    /\ UNCHANGED fmtVars

\* out, _ := m.MarshalJSON()
Marshal ==
    /\ out' = MarshalJSON(m)
    /\ UNCHANGED <<m, blob, err, calls, pc, m2, err2, out2>>
    /\ UNCHANGED fmtVars

Next == Decode \/ Marshal

Spec == Init /\ [][Next]_vars

(***************************************************************************)
(* SpecFresh: a text is decoded into a fresh Meta, the Meta is encoded,     *)
(* the bytes are decoded into another fresh Meta, and that one is encoded   *)
(***************************************************************************)

InitFresh ==
    /\ m = ZeroMeta
    /\ blob \in FreshTexts
    /\ err = NoErr
    /\ out = Nil
    /\ calls = 0
    /\ pc = "start"
    /\ m2 = ZeroMeta
    /\ err2 = NoErr
    /\ out2 = Nil
    /\ data = <<>>
    /\ offset = 0
    /\ errKind = "none"
    /\ res = Nil

\* var m Meta; err := m.UnmarshalJSON(blob)
DecodeFresh ==
    /\ pc = "start"
    /\ \E order \in MetaOrders :
          LET r == UnmarshalJSON(m, blob, order)
          IN /\ m' = r.m
             /\ err' = r.err
    /\ pc' = "decoded"
    /\ calls' = calls + 1
    /\ UNCHANGED <<blob, out, m2, err2, out2>>
    /\ UNCHANGED fmtVars

\* out, _ := m.MarshalJSON()
EncodeFresh ==
    /\ pc = "decoded"
    /\ err = NoErr
    /\ out' = MarshalJSON(m)
    /\ pc' = "encoded"
    /\ UNCHANGED <<m, blob, err, calls, m2, err2, out2>>
    /\ UNCHANGED fmtVars

\* var m2 Meta; err2 := m2.UnmarshalJSON(out)
DecodeAgain ==
    /\ pc = "encoded"
    /\ \E order \in MetaOrders :
          LET r == UnmarshalJSON(m2, out, order)
          IN /\ m2' = r.m
             /\ err2' = r.err
    /\ pc' = "redecoded"
    /\ UNCHANGED <<m, blob, err, out, calls, out2>>
    /\ UNCHANGED fmtVars

\* out2, _ := m2.MarshalJSON()
EncodeAgain ==
    /\ pc = "redecoded"
    /\ err2 = NoErr
    /\ out2' = MarshalJSON(m2)
    /\ pc' = "done"
    /\ UNCHANGED <<m, blob, err, out, calls, m2, err2>>
    /\ UNCHANGED fmtVars

NextFresh == DecodeFresh \/ EncodeFresh \/ DecodeAgain \/ EncodeAgain

SpecFresh == InitFresh /\ [][NextFresh]_vars

(***************************************************************************)
(* Claims about Meta                                                        *)
(***************************************************************************)

\* the keys written in an object text
Keys(text) == {text.members[i].key : i \in DOMAIN text.members}

\* the folded keys that two or more distinct keys of the text fold to
Ambiguous(text) ==
    {Fold(k) : k \in {x \in Keys(text) :
                        \E y \in Keys(text) : y # x /\ Fold(y) = Fold(x)}}

\* the object a text denotes: every key with the literal written for it (the
\* one written last, when a key is written twice)
InputPairs(text) ==
    [k \in Keys(text) |-> text.members[LastIndex(text.members, k)].val]

\* the keys that fold to schema, package or name and hold no string
Offending(text) ==
    {k \in Keys(text) :
        /\ Fold(k) \in {Fold(kschema), Fold(kpackage), Fold(kname)}
        /\ InputPairs(text)[k].t # "string"}

\* C1: decoding an object in which two or more distinct keys fold to the same
\* folded key fails with the duplicate-key error; every ambiguity it reports
\* names a folded key of the object together with all the original keys that
\* fold to it; no field and no payload is taken from the object.
C1_DuplicateKeysRejected ==
    (pc # "start" /\ blob.top = "object" /\ Ambiguous(blob) # {}) =>
        /\ err.kind = "duplicate keys"
        /\ err.dups # {}
        /\ \A d \in err.dups :
              /\ d.foldedKey \in Ambiguous(blob)
              /\ d.keys = {k \in Keys(blob) : Fold(k) = d.foldedKey}
              /\ Cardinality(d.keys) > 1
        /\ m = ZeroMeta

C1_Witness ==
    /\ pc = "decoded"
    /\ err.kind = "duplicate keys"
    /\ [foldedKey |-> kfoo, keys |-> {kfoo, kFoo}] \in err.dups
    /\ kschema \in Keys(blob)

\* C2 as claimed: whenever the value under a key folding to schema, package
\* or name is no string, decode fails with the type-mismatch error naming
\* such a key.
C2_TypeMismatchAlways ==
    (pc # "start" /\ blob.top = "object" /\ Offending(blob) # {}) =>
        /\ err.kind = "expected string"
        /\ err.key \in Offending(blob)

\* C2 as amended: when no two keys of the object fold to the same folded key
\* and some key folding to schema, package or name holds no string, decode
\* fails with the type-mismatch error naming one of those keys, and no
\* payload is stored.
C2_TypeMismatchUnlessAmbiguous ==
    (pc # "start" /\ blob.top = "object" /\ Ambiguous(blob) = {}
        /\ Offending(blob) # {}) =>
        /\ err.kind = "expected string"
        /\ err.key \in Offending(blob)
        /\ m.Blob = Nil

C2_Witness ==
    /\ pc = "decoded"
    /\ err.kind = "expected string"
    /\ err.key = kname
    /\ InputPairs(blob)[kname] = NullLit

\* C3 as claimed: every object without a casing collision among the
\* variants of schema, package and name decodes; the bytes it encodes to
\* decode again with the same Schema, Package and Name and encode to the very
\* same bytes.
C3_CanonicalFormOfEveryObject ==
    (blob.top = "object"
        /\ Ambiguous(blob) \cap {Fold(kschema), Fold(kpackage), Fold(kname)} = {}) =>
        /\ pc # "start" => err = NoErr
        /\ pc \in {"redecoded", "done"} =>
              /\ err2 = NoErr
              /\ m2.Blob = out
              /\ m2.Schema = m.Schema /\ m2.Package = m.Package /\ m2.Name = m.Name
        /\ pc = "done" => out2 = out

\* C3 as amended: an object decodes when no two of its keys, whichever they
\* are, fold to the same folded key and every key folding to schema, package
\* or name holds a string; the bytes a successful decode into a fresh Meta
\* encodes to decode again, into another fresh Meta, with the same Schema,
\* Package and Name, and that Meta encodes to the very same bytes.
C3_CanonicalFormIsFixed ==
    /\ (pc # "start" /\ blob.top = "object" /\ Ambiguous(blob) = {}
            /\ Offending(blob) = {}) => err = NoErr
    /\ pc \in {"redecoded", "done"} =>
          /\ err2 = NoErr
          /\ m2.Blob = out
          /\ m2.Schema = m.Schema
          /\ m2.Package = m.Package
          /\ m2.Name = m.Name
    /\ pc = "done" => out2 = out

C3_Witness ==
    /\ pc = "done"
    /\ out.members # blob.members
    /\ m.Schema # ""
    /\ m.Name # ""
    /\ kfoo \in Keys(blob)

\* the string stored under the key of the text that folds to the key of the
\* field; the empty string when there is no such key
Projection(text, field) ==
    LET ks == {k \in Keys(text) : Fold(k) = Fold(MetaKey(field))}
    IN IF ks = {} THEN "" ELSE InputPairs(text)[CHOOSE k \in ks : TRUE].s

\* C4: after every successful decode, into a fresh Meta or one decoded into
\* before, each of Schema, Package and Name is the string stored in the
\* decoded object under the key folding to its name, and empty when the
\* object has no such key.
C4_FieldsAreProjections ==
    (calls > 0 /\ err = NoErr) =>
        \A field \in MetaFields : m[field] = Projection(blob, field)

\* two literals that write the same value
SameValue(a, b) ==
    /\ a.t = b.t
    /\ a.t = "string" => a.s = b.s
    /\ a.t = "number" => a.hi = b.hi /\ a.lo = b.lo

\* C5: after a successful decode the payload holds exactly the keys of the
\* input object, each in its original spelling and with its original value.
C5_PayloadKeepsObject ==
    (pc # "start" /\ err = NoErr /\ blob.top = "object") =>
        /\ m.Blob # Nil
        /\ m.Blob.top = "object"
        /\ Keys(m.Blob) = Keys(blob)
        /\ Len(m.Blob.members) = Cardinality(Keys(blob))
        /\ \A k \in Keys(blob) :
              SameValue(InputPairs(m.Blob)[k], InputPairs(blob)[k])

\* C6: when two or more folded keys are ambiguous, the one error returned
\* lists every one of them: as many ambiguities as there are folded keys
\* with more than one original key.
C6_AllAmbiguitiesReported ==
    (pc # "start" /\ blob.top = "object" /\ Cardinality(Ambiguous(blob)) > 1) =>
        /\ err.kind = "duplicate keys"
        /\ {d.foldedKey : d \in err.dups} = Ambiguous(blob)
        /\ Cardinality(err.dups) = Cardinality(Ambiguous(blob))

C6_Witness ==
    /\ pc = "decoded"
    /\ err.kind = "duplicate keys"
    /\ {d.foldedKey : d \in err.dups} = {kschema, kfoo}

\* C10: a decode that returns an error leaves Schema, Package, Name and Blob
\* of the Meta as they were before the call.
C10_FailedDecodeChangesNothing ==
    [][(calls' # calls /\ err' # NoErr) => m' = m]_vars

(***************************************************************************)
(* SpecFormat: resolveUnmarshalErr on a document and an error               *)
(***************************************************************************)

\* the longest document made of arbitrary bytes
MaxLen == 3

Alphabet == {"{", "}", "[", "]", ":", ",", "\"", "1", "a", " "}

\* documents as they are met: objects, with and without whitespace, a string
\* with a space, a document cut short
SampleDocuments ==
    {<<"{", "\"", "a", "\"", ":", "1", "}">>,
     <<"{", "\"", "a", "\"", ":", " ", "1", "}">>,
     <<"{", "\"", "a", "\"", ":", "\"", "a", " ", "a", "\"", "}">>,
     <<"{", "\"", "a", "\"", ":", "[", "1", ",", "1", "]", "}">>,
     <<"{", "\n", " ", "\"", "a", "\"", ":", "1", "\n", "}", "\n">>,
     <<"{", "\"", "a", "\"", ":", "1", ",", "\"", "a", "\"", ":", "}">>}

Documents ==
    UNION {[1..n -> Alphabet] : n \in 0..MaxLen} \cup SampleDocuments

InitFormat ==
    /\ m = ZeroMeta
    /\ blob = Nil
    /\ err = NoErr
    /\ out = Nil
    /\ calls = 0
    /\ pc = "format"
    /\ m2 = ZeroMeta
    /\ err2 = NoErr
    /\ out2 = Nil
    /\ data \in Documents
    /\ offset \in 0..Len(data)
    /\ errKind \in {"UnmarshalTypeError", "SyntaxError", "other"}
    /\ res = Nil

\* res := resolveUnmarshalErr(data, err)
Resolve ==
    /\ pc = "format"
    /\ res' = resolveUnmarshalErr(data, errKind, offset)
    /\ pc' = "formatted"
    /\ UNCHANGED <<m, blob, err, out, calls, m2, err2, out2>>
    /\ UNCHANGED <<data, offset, errKind>>

NextFormat == Resolve

SpecFormat == InitFormat /\ [][NextFormat]_vars

(***************************************************************************)
(* Claims about the JSON error formatter                                    *)
(***************************************************************************)

\* the formatter was reached and has ended
Reached == pc = "formatted" /\ errKind \in {"UnmarshalTypeError", "SyntaxError"}

HasMarker(body) ==
    \E i \in 1..(Len(body) - Len(Marker) + 1) :
        SubSeq(body, i, i + Len(Marker) - 1) = Marker

\* C7: for every document and every offset from 0 to the length of the
\* document the formatter returns, without a panic, a string that contains
\* the marker.
C7_FormatterReturns ==
    Reached => res.kind = "string" /\ HasMarker(res.body)

\* the bytes among the first n of dst that Indent copied from the document
CopiedBytes(dst, n) ==
    Bytes(SelectSeq(SubSeq(dst, 1, n), LAMBDA b : b.src # 0))

\* C8: for a valid document the text before the marker, without the
\* whitespace Indent added, is the first offset bytes of the document.
C8_MarkerAtSameByte ==
    (Reached /\ Indent(data).ok) =>
        /\ res.kind = "string"
        /\ CopiedBytes(Indent(data).dst, res.split) = SubSeq(data, 1, offset)

\* the document the output shows
Shown == IF Indent(data).ok THEN Bytes(Indent(data).dst) ELSE data

\* C9: the output is the error message, the offset and the shown document
\* with the marker at one position; the shown document is the indented one
\* when Indent succeeds, and otherwise the raw bytes, split at the offset.
C9_OutputShape ==
    Reached =>
        /\ res.kind = "string"
        /\ res.offset = offset
        /\ res.errmsg \in {"json: cannot unmarshal", "invalid character"}
        /\ \E p \in 0..Len(Shown) :
              res.body = SubSeq(Shown, 1, p) \o Marker \o SubSeq(Shown, p + 1, Len(Shown))
        /\ ~Indent(data).ok =>
              res.body = SubSeq(data, 1, offset) \o Marker
                            \o SubSeq(data, offset + 1, Len(data))

====
